---------------------------- MODULE Spec2Model ----------------------------
(***************************************************************************)
(* A model of z_slime (src/src/main.rs, src/src/agent.rs): the World grid  *)
(* with its reseeding, erosion and Life passes, the key and mouse          *)
(* handlers that drive it, the colour mutation, and the bouncing Agent.    *)
(*                                                                         *)
(* f32 values (density, the rates, the uniform draws) are integers in      *)
(* units of 2^-29, so that 0.4, 0.02, 0.1, 0.99 and every draw k * 2^-24   *)
(* are exact, and an f32 addition is the exact sum rounded to 24           *)
(* significant bits, ties to even.                                         *)
(***************************************************************************)
EXTENDS Integers, Sequences, FiniteSets, TLC

VARIABLES
    tiles,        \* World.tiles: tiles[row][col]
    density,      \* World.density (f32, units of 2^-29)
    zoom,         \* World.zoom (i16)
    op,           \* the handler that ran last ("new" after construction)
    old_tiles,    \* World.tiles as the last handler found it
    base_tiles,   \* World.tiles after the last handler other than update_life
                  \* and the mouse handler
    seed_draws,   \* the draws the last update_seed consumed, per block
    life_draws,   \* the draws the last update_life consumed, per cell
    mouse,        \* the input of the last mouse release
    used,         \* how many times each kind of command has run
    agent,        \* an Agent: x, y, velocity
    agent_new,    \* the Agent as Agent::new built it
    agent_prev,   \* the Agent before its last update
    mut_in,       \* mutate_life_cell: the colour passed in
    mut_off,      \* mutate_life_cell: the three offsets drawn
    mut_out       \* mutate_life_cell: the colour returned

world_vars == <<tiles, density, zoom, op, old_tiles, base_tiles, seed_draws, life_draws,
                mouse, used>>
agent_vars == <<agent, agent_new, agent_prev>>
mut_vars == <<mut_in, mut_off, mut_out>>
vars == <<world_vars, agent_vars, mut_vars>>

---------------------------------------------------------------------------
(* Bounds of the model. *)

\* CELLS_WIDTH = CELLS_HEIGHT = 300 in the source; the model's grid is
\* GridSize x GridSize.
GridSize == 3
\* World.zoom is an i16 the Z key raises without limit; the model stops at
\* MaxZoom, one more than the grid is wide, where a block no longer fits.
MaxZoom == 4
\* The commands a run of Spec is made of: at most MaxSeeds reseeds,
\* MaxClicks mouse releases, MaxErosions erosion passes and MaxGen
\* update_life passes.
MaxSeeds == 1
MaxClicks == 1
MaxErosions == 1
MaxGen == 2
\* commands in a run that may use every command
MaxCommands == 3

---------------------------------------------------------------------------
(* Program constants. *)

CELLS_WIDTH == GridSize
CELLS_HEIGHT == GridSize
CELLS_X == 100
CELLS_Y == 200
SCALE == 2
\* f32 1.0 in units of 2^-29
F32One == 2^29
\* 0.1f32 = 13421773 * 2^-27
SPAWN_RATE == 53687092
\* 0.99f32 = 16609444 * 2^-24
SURVIVAL_RATE == 531502208
\* 0.4f32 = 13421773 * 2^-25
DENSITY_NEW == 214748368
\* 0.02f32 = 10737418 * 2^-29
DENSITY_STEP == 10737418
MAX_CHANNEL == 255
MUTATE_MIN == -2
MUTATE_MAX == 2

---------------------------------------------------------------------------
(* f32 arithmetic on values in units of 2^-29. *)

Abs(n) == IF n < 0 THEN -n ELSE n

RECURSIVE F32Quantum(_)
\* The spacing of the f32 values around magnitude n: 1 below 2^24 units,
\* doubling with every further bit.
F32Quantum(n) == IF n < 2^24 THEN 1 ELSE 2 * F32Quantum(n \div 2)

\* n >= 0 rounded to a multiple of q, ties to the even multiple.
RoundTiesEven(n, q) ==
    LET lo == (n \div q) * q
        r == n - lo
    IN  IF 2 * r < q THEN lo
        ELSE IF 2 * r > q THEN lo + q
        ELSE IF (n \div q) % 2 = 0 THEN lo ELSE lo + q

F32Round(n) ==
    IF n < 0 THEN -RoundTiesEven(-n, F32Quantum(-n))
    ELSE RoundTiesEven(n, F32Quantum(n))

F32Add(a, b) == F32Round(a + b)

---------------------------------------------------------------------------
(* enum Cell *)

Empty == [tag |-> "Empty", r |-> 0, g |-> 0, b |-> 0]
Wall == [tag |-> "Wall", r |-> 0, g |-> 0, b |-> 0]
Life(r, g, b) == [tag |-> "Life", r |-> r, g |-> g, b |-> b]
IsLife(c) == c.tag = "Life"

---------------------------------------------------------------------------
(* struct World *)

width == CELLS_WIDTH
height == CELLS_HEIGHT

\* vec![vec![Cell::Empty; CELLS_HEIGHT]; CELLS_WIDTH]
FreshTiles == [row \in 0..(CELLS_WIDTH - 1) |-> [col \in 0..(CELLS_HEIGHT - 1) |-> Empty]]

Xs == 0..(width - 1)
Ys == 0..(height - 1)
\* a cell is <<x, y>>; its value is tiles[y][x]
Cells == Xs \X Ys
At(t, x, y) == t[y][x]

\* for i in -1..2 { for j in -1..2 { ... } }: the offsets in the order the
\* loops visit them, (0, 0) skipped
NeighborOffsets ==
    << <<-1, -1>>, <<-1, 0>>, <<-1, 1>>, <<0, -1>>, <<0, 1>>, <<1, -1>>, <<1, 0>>, <<1, 1>> >>

\* if x < 0 || x >= self.width || y < 0 || y >= self.height { continue; }
InBounds(x, y) == ~(x < 0 \/ x >= width \/ y < 0 \/ y >= height)

\* the eight positions around (x, y), wrapped around the grid's edges
NeighborCellsWrapped(x, y) ==
    [k \in 1..8 |-> <<(x + NeighborOffsets[k][1] + width) % width,
                      (y + NeighborOffsets[k][2] + height) % height>>]

\* the in-bounds neighbour positions of (x, y), in visiting order
NeighborCells(x, y) ==
    LET all == [k \in 1..8 |-> <<x + NeighborOffsets[k][1], y + NeighborOffsets[k][2]>>]
    IN  SelectSeq(all, LAMBDA p : InBounds(p[1], p[2]))

\* for x in 0..self.width { for y in 0..self.height { ... } }
VisitOrder == [k \in 1..(width * height) |-> <<(k - 1) \div height, (k - 1) % height>>]

ReadSourceInPlace(self_tiles, new_tiles) == new_tiles
\* the grid a pass reads cell values from: self.tiles, never new_tiles
ReadSource(self_tiles, new_tiles) == self_tiles

---------------------------------------------------------------------------
(* World::update_map_iteration *)

EROSION_THRESHOLD == 4

\* the count with every position outside the grid taken for Empty
EmptyNeighborsOutsideEmpty(src, x, y) ==
    LET nbrs == NeighborCells(x, y)
    IN  (8 - Len(nbrs)) +
        Cardinality({k \in 1..Len(nbrs) : At(src, nbrs[k][1], nbrs[k][2]) = Empty})

\* the number of in-bounds neighbours of (x, y) that are Cell::Empty in src
EmptyNeighbors(src, x, y) ==
    LET nbrs == NeighborCells(x, y)
    IN  Cardinality({k \in 1..Len(nbrs) : At(src, nbrs[k][1], nbrs[k][2]) = Empty})

\* the rule with a tie falling back to new_tiles' initial Cell::Empty
ErodedTileTieEmpty(src, x, y) ==
    LET neighbors == EmptyNeighbors(src, x, y)
    IN  IF neighbors > EROSION_THRESHOLD THEN Empty
        ELSE IF neighbors < EROSION_THRESHOLD THEN Wall
        ELSE Empty

\* let mut tile = self.tiles[y][x]; if neighbors > 4 { Empty } else if
\* neighbors < 4 { Wall }
ErodedTile(src, x, y) ==
    LET neighbors == EmptyNeighbors(src, x, y)
        tile == At(src, x, y)
    IN  IF neighbors > EROSION_THRESHOLD THEN Empty
        ELSE IF neighbors < EROSION_THRESHOLD THEN Wall
        ELSE tile

RECURSIVE MapIterationLoop(_, _, _, _)
\* the two loops over x and y, from the k-th cell of order on:
\* new_tiles[y][x] = tile
MapIterationLoop(self_tiles, new_tiles, order, k) ==
    IF k > Len(order) THEN new_tiles
    ELSE LET x == order[k][1]
             y == order[k][2]
             src == ReadSource(self_tiles, new_tiles)
         IN  MapIterationLoop(self_tiles,
                              [new_tiles EXCEPT ![y][x] = ErodedTile(src, x, y)],
                              order, k + 1)

\* the value self.tiles gets: new_tiles, built from a fresh all-Empty grid
update_map_iteration(self_tiles) == MapIterationLoop(self_tiles, FreshTiles, VisitOrder, 1)

---------------------------------------------------------------------------
(* mutate_life_cell *)

\* if r + r_mutate > 0 && r + r_mutate <= 255 { r + r_mutate } else { r }
\* the test without its upper half
MutateChannelNoUpperTest(c, c_mutate) ==
    IF c + c_mutate > 0 THEN c + c_mutate ELSE c

MutateChannelFromZero(c, c_mutate) ==
    IF c + c_mutate >= 0 /\ c + c_mutate <= MAX_CHANNEL THEN c + c_mutate ELSE c

MutateChannel(c, c_mutate) ==
    IF c + c_mutate > 0 /\ c + c_mutate <= MAX_CHANNEL THEN c + c_mutate ELSE c

\* rgb is the triple passed in, off the three values of gen_range(-2..3)
mutate_life_cell(rgb, off) ==
    << MutateChannel(rgb[1], off[1]), MutateChannel(rgb[2], off[2]),
       MutateChannel(rgb[3], off[3]) >>

---------------------------------------------------------------------------
(* World::update_life *)

\* every Cell::Life value of src, whether a neighbour of (x, y) or not
LifeNeighborListWholeGrid(src, x, y) ==
    SelectSeq([k \in 1..Len(VisitOrder) |-> At(src, VisitOrder[k][1], VisitOrder[k][2])], IsLife)

\* the list without the skip of i == 0 && j == 0: the cell counts itself
LifeNeighborListWithSelf(src, x, y) ==
    LET nbrs == NeighborCells(x, y) \o << <<x, y>> >>
        vals == [k \in 1..Len(nbrs) |-> At(src, nbrs[k][1], nbrs[k][2])]
    IN  SelectSeq(vals, IsLife)

\* neighbor_list: the Cell::Life values among the in-bounds neighbours of
\* (x, y) in src, in the order the loops push them
LifeNeighborList(src, x, y) ==
    LET nbrs == NeighborCells(x, y)
        vals == [k \in 1..Len(nbrs) |-> At(src, nbrs[k][1], nbrs[k][2])]
    IN  SelectSeq(vals, IsLife)

\* the commented-out body: a Life cell becomes Empty
DeathBranchKills(self_tiles, new_tiles, x, y) ==
    IF IsLife(At(self_tiles, x, y)) THEN [new_tiles EXCEPT ![y][x] = Empty] ELSE new_tiles

\* the branch taken when (neighbors > 5 || neighbors < 3) && !will_survive:
\* its body is commented out
DeathBranch(self_tiles, new_tiles, x, y) == new_tiles

\* neighbor_list.choose(..): pick is the index drawn, reduced into the list
ChooseNeighbor(list, pick) == list[(pick % Len(list)) + 1]

\* the test without the survive draw: a cell with fewer than 3 or more than
\* 5 Life neighbours always takes the death branch
TakesDeathBranchWhateverDraw(neighbors, will_survive) ==
    neighbors > 5 \/ neighbors < 3

\* the test with the spawn test in front of it: a cell that can spawn never
\* takes the death branch
TakesDeathBranchUnlessSpawn(neighbors, will_survive) ==
    neighbors = 0 /\ ~will_survive

\* if (neighbors > 5 || neighbors < 3) && !will_survive
TakesDeathBranch(neighbors, will_survive) ==
    (neighbors > 5 \/ neighbors < 3) /\ ~will_survive

\* one iteration of the loop body for cell (x, y); d holds the draws:
\* survive and spawn (rand::random::<f32>()), pick (choose), mutate (the
\* three gen_range(-2..3) of mutate_life_cell)
LifeStepCell(self_tiles, new_tiles, x, y, d) ==
    LET src == ReadSource(self_tiles, new_tiles)
    IN  IF At(src, x, y) = Wall THEN new_tiles
        ELSE LET neighbor_list == LifeNeighborList(src, x, y)
                 neighbors == Len(neighbor_list)
                 will_survive == d.survive < SURVIVAL_RATE
                 will_spawn == d.spawn < SPAWN_RATE
             IN  IF TakesDeathBranch(neighbors, will_survive)
                 THEN DeathBranch(self_tiles, new_tiles, x, y)
                 ELSE IF neighbors > 0 /\ will_spawn
                 THEN LET c == ChooseNeighbor(neighbor_list, d.pick)
                          m == mutate_life_cell(<<c.r, c.g, c.b>>, d.mutate)
                      IN  [new_tiles EXCEPT ![y][x] = Life(m[1], m[2], m[3])]
                 ELSE new_tiles

RECURSIVE LifeLoop(_, _, _, _, _)
\* the two loops over x and y, from the k-th cell of order on
LifeLoop(self_tiles, new_tiles, order, k, draws) ==
    IF k > Len(order) THEN new_tiles
    ELSE LET x == order[k][1]
             y == order[k][2]
         IN  LifeLoop(self_tiles,
                      LifeStepCell(self_tiles, new_tiles, x, y, draws[<<x, y>>]),
                      order, k + 1, draws)

\* the value self.tiles gets: new_tiles, built from self.tiles.clone()
update_life(self_tiles, draws) == LifeLoop(self_tiles, self_tiles, VisitOrder, 1, draws)

---------------------------------------------------------------------------
(* World::update_seed *)

\* the block count rounded up, so that the blocks cover a remainder
SeedBlocksXCeil(z) == (width + z - 1) \div z

\* i16 division truncates toward zero
TruncDiv(a, b) == IF b > 0 THEN a \div b ELSE -(a \div (-b))

\* self.width/self.zoom and self.height/self.zoom
SeedBlocksX(z) == TruncDiv(width, z)
SeedBlocksY(z) == TruncDiv(height, z)

\* for x in 0..self.width/self.zoom { for y in 0..self.height/self.zoom
SeedBlocks(z) == (0..(SeedBlocksX(z) - 1)) \X (0..(SeedBlocksY(z) - 1))
SeedOrder(z) ==
    LET nx == SeedBlocksX(z)
        ny == SeedBlocksY(z)
    IN  IF nx <= 0 \/ ny <= 0 THEN << >>
        ELSE [k \in 1..(nx * ny) |-> <<(k - 1) \div ny, (k - 1) % ny>>]

\* if rand::random::<f32>() > self.density { Empty } else { Wall }
SeedTile(draw, dens) == IF draw > dens THEN Empty ELSE Wall

\* the indices block (x, y) writes: tiles[y*zoom + j][x*zoom + i]
BlockRows(y, z) == {y * z + j : j \in 0..(z - 1)}
BlockCols(x, z) == {x * z + i : i \in 0..(z - 1)}

FillBlock(t, x, y, z, tile) ==
    [row \in DOMAIN t |-> [col \in DOMAIN t[row] |->
        IF row \in BlockRows(y, z) /\ col \in BlockCols(x, z) THEN tile ELSE t[row][col]]]

RECURSIVE SeedLoop(_, _, _, _, _)
SeedLoop(t, dens, z, k, draws) ==
    IF k > Len(SeedOrder(z)) THEN t
    ELSE LET x == SeedOrder(z)[k][1]
             y == SeedOrder(z)[k][2]
         IN  SeedLoop(FillBlock(t, x, y, z, SeedTile(draws[<<x, y>>], dens)),
                      dens, z, k + 1, draws)

\* the value self.tiles has after update_seed, written in place
update_seed(self_tiles, dens, z, draws) == SeedLoop(self_tiles, dens, z, 1, draws)

---------------------------------------------------------------------------
(* The mouse handler's translation of a pixel to a cell. *)

cells_pixel_width == CELLS_WIDTH * SCALE
cells_pixel_height == CELLS_HEIGHT * SCALE

inside_cells(x, y) ==
    /\ x > CELLS_X /\ x < CELLS_X + cells_pixel_width
    /\ y > CELLS_Y /\ y < CELLS_Y + cells_pixel_height

MouseRow(y) == ((y - CELLS_Y) \div SCALE) % CELLS_HEIGHT
MouseCol(x) == ((x - CELLS_X) \div SCALE) % CELLS_WIDTH

\* the handler without its test for Cell::Wall
MouseInjectOverWall(t, m) ==
    IF ~m.some THEN t
    ELSE IF ~inside_cells(m.x, m.y) THEN t
    ELSE [t EXCEPT ![MouseRow(m.y)][MouseCol(m.x)] = Life(m.rgb[1], m.rgb[2], m.rgb[3])]

\* the grid after a mouse release at m.pos with the colour m.rgb drawn
MouseInject(t, m) ==
    IF ~m.some THEN t
    ELSE IF ~inside_cells(m.x, m.y) THEN t
    ELSE LET row == MouseRow(m.y)
             col == MouseCol(m.x)
         IN  IF t[row][col] = Wall THEN t
             ELSE [t EXCEPT ![row][col] = Life(m.rgb[1], m.rgb[2], m.rgb[3])]

---------------------------------------------------------------------------
(* The random draws the model enumerates. *)

\* rand::random::<f32>() returns k * 2^-24, 0 <= k < 2^24: the least value
\* 0.0 and the greatest value 1 - 2^-24
DrawValues == {0, F32One - 32}

\* One draw per element of D: the same draw everywhere, or the same draw
\* everywhere but at one element.
DrawVectors(D, Vals) ==
    {[d \in D |-> b] : b \in Vals}
        \cup {[d \in D |-> IF d = e THEN o ELSE b] : e \in D, b \in Vals, o \in Vals}

SeedDrawVectors(z) == DrawVectors(SeedBlocks(z), DrawValues)

\* the indices choose() may return for a list of up to 8 neighbours, as
\* numbers reduced modulo the list's length
PickValues == {0, 7}

\* triples of gen_range(-2..3)
WorldMutateDraws == { <<MUTATE_MIN, 0, MUTATE_MAX>>, <<MUTATE_MAX, -1, 1>> }

\* the draws of one cell: a spawn draw that fails, after which choose and
\* mutate_life_cell are not called, or one that succeeds
SpawnFails == [survive : DrawValues, spawn : {F32One - 32}, pick : {0}, mutate : {<<0, 0, 0>>}]
SpawnSucceeds == [survive : DrawValues, spawn : {0}, pick : PickValues, mutate : WorldMutateDraws]
LifeDrawRecs == SpawnFails \cup SpawnSucceeds

\* the draws of a cell that survives and does not spawn
QuietDraw == [survive |-> 0, spawn |-> F32One - 32, pick |-> 0, mutate |-> <<0, 0, 0>>]

\* One record of draws per cell: the same record for every cell, or quiet
\* draws everywhere but at one cell, whose spawn draw succeeds.
LifeDrawVectors ==
    {[c \in Cells |-> d] : d \in LifeDrawRecs}
        \cup {[c \in Cells |-> IF c = e THEN d ELSE QuietDraw] : e \in Cells, d \in SpawnSucceeds}

\* gen_range(0..=255) three times
InjectColours == { <<0, 128, MAX_CHANNEL>> }

NoMouse == [some |-> FALSE, x |-> 0, y |-> 0, rgb |-> <<0, 0, 0>>]

\* Mouse releases: no position, a pixel left of the cells, a pixel below
\* them, and one pixel inside every cell, each with every colour.
MousePixels ==
    { <<CELLS_X, CELLS_Y + 1>>, <<CELLS_X + 1, CELLS_Y + cells_pixel_height>> }
        \cup { <<CELLS_X + SCALE * c[1] + 1, CELLS_Y + SCALE * c[2] + 1>> : c \in Cells }

MouseInputs ==
    {NoMouse} \cup { [some |-> TRUE, x |-> p[1], y |-> p[2], rgb |-> c] :
                        p \in MousePixels, c \in InjectColours }

NoDraws == << >>

---------------------------------------------------------------------------
(* The World and its handlers. *)

\* World::new()
InitWorld ==
    /\ tiles = FreshTiles
    /\ density = DENSITY_NEW
    /\ zoom = 1
    /\ op = "new"
    /\ old_tiles = FreshTiles
    /\ base_tiles = FreshTiles
    /\ seed_draws = NoDraws
    /\ life_draws = NoDraws
    /\ mouse = NoMouse
    /\ used = [seed |-> 0, click |-> 0, erode |-> 0, life |-> 0, cmd |-> 0]

\* no handler has run since the last frame was drawn
Idle == op \in {"new", "draw"}

\* what the model remembers of a handler's run, until the next frame
Note(o, sd, ld, m) ==
    /\ op' = o
    /\ old_tiles' = tiles
    /\ base_tiles' = IF o \in {"update_life", "Mouse"} THEN base_tiles ELSE tiles'
    /\ seed_draws' = sd
    /\ life_draws' = ld
    /\ mouse' = m

\* a call of update_seed with the density and zoom the handler has set
Reseed(o) ==
    \E dv \in SeedDrawVectors(zoom') :
        /\ tiles' = update_seed(tiles, density', zoom', dv)
        /\ Note(o, <<dv>>, NoDraws, NoMouse)

\* VirtualKeyCode::Left
Left == Idle /\ UNCHANGED <<density, zoom>> /\ Reseed("Left")

\* VirtualKeyCode::Up
Up ==
    /\ Idle
    /\ density < F32One + DENSITY_STEP
    /\ density' = F32Add(density, DENSITY_STEP)
    /\ UNCHANGED zoom
    /\ Reseed("Up")

\* VirtualKeyCode::Down
Down ==
    /\ Idle
    /\ density > -DENSITY_STEP
    /\ density' = F32Add(density, -DENSITY_STEP)
    /\ UNCHANGED zoom
    /\ Reseed("Down")

\* VirtualKeyCode::Right
Right ==
    /\ Idle
    /\ tiles' = update_map_iteration(tiles)
    /\ Note("Right", NoDraws, NoDraws, NoMouse)
    /\ UNCHANGED <<density, zoom>>

\* zoom: i16; an addition that overflows wraps around in a build without
\* overflow checks and panics in a build with them
I16_MAX == 32767
WrapI16(n) == ((n + I16_MAX + 1) % (2 * (I16_MAX + 1))) - (I16_MAX + 1)

\* VirtualKeyCode::Z, followed while zoom is below cap; update_seed
\* panics on self.width/self.zoom when zoom is 0, which ends the program
ZoomIn(cap) ==
    /\ Idle
    /\ zoom < cap
    /\ zoom' = WrapI16(zoom + 1)
    /\ zoom' # 0
    /\ UNCHANGED density
    /\ Reseed("Z")

Z == ZoomIn(MaxZoom)

\* VirtualKeyCode::X
X ==
    /\ Idle
    /\ IF zoom > 1
       THEN /\ zoom' = zoom - 1
            /\ UNCHANGED density
            /\ Reseed("X")
       ELSE /\ UNCHANGED <<tiles, density, zoom>>
            /\ Note("X", NoDraws, NoDraws, NoMouse)

\* input.mouse_released(0)
Mouse ==
    /\ Idle
    /\ \E m \in MouseInputs :
          /\ tiles' = MouseInject(tiles, m)
          /\ Note("Mouse", NoDraws, NoDraws, m)
    /\ UNCHANGED <<density, zoom>>

\* the game loop's update closure: world.update_life(), with the draws of
\* the pass taken from V
UpdateLifeWith(V) ==
    /\ Idle
    /\ \E dv \in V :
          /\ tiles' = update_life(tiles, dv)
          /\ Note("update_life", NoDraws, dv, NoMouse)
    /\ UNCHANGED <<density, zoom>>

UpdateLife == UpdateLifeWith(LifeDrawVectors)

\* the pixels of the frame around and over the grid
DrawPixels ==
    (CELLS_X..(CELLS_X + cells_pixel_width)) \X (CELLS_Y..(CELLS_Y + cells_pixel_height))

\* the colour World::draw gives a pixel over a cell
PixelOf(tile) ==
    IF tile = Empty THEN <<255, 255, 255, 255>>
    ELSE IF tile = Wall THEN <<0, 0, 0, 255>>
    ELSE <<tile.r, tile.g, tile.b, 255>>

\* the frame World::draw fills: white outside the grid
Frame(w) ==
    [p \in DrawPixels |->
        IF inside_cells(p[1], p[2])
        THEN PixelOf(w.tiles[MouseRow(p[2])][MouseCol(p[1])])
        ELSE <<255, 255, 255, 255>>]

\* a draw that paints the cells it has drawn out of the grid
drawClearing(w) == [w EXCEPT !.tiles = FreshTiles]

\* the World after fn draw(&mut self, frame): the body assigns no field of
\* self, only the pixels of frame
draw(w) == w

\* the game loop's render closure: world.draw(frame); the record of the
\* last handler ends here
Draw ==
    /\ ~Idle
    /\ LET w == draw([tiles |-> tiles, density |-> density, zoom |-> zoom])
       IN  /\ tiles' = w.tiles
           /\ density' = w.density
           /\ zoom' = w.zoom
    /\ op' = "draw"
    /\ old_tiles' = tiles
    /\ seed_draws' = NoDraws
    /\ life_draws' = NoDraws
    /\ mouse' = NoMouse
    /\ UNCHANGED base_tiles

---------------------------------------------------------------------------
(* struct Agent, in f32 units of 2^-24. *)

AgentOne == 2^24
AGENT_SPEED == 1
\* the world_width and world_height passed to Agent::update
AgentWorldWidth == 3
AgentWorldHeight == 2
\* Agent::update calls the model lets run
MaxAgentSteps == 12

\* random_float(0.0, 1.0) returns k * 2^-23, 0 <= k < 2^23
\* (5033160, 5033162, 5033164 are the draws next to 0.3)
VelocityDraws ==
    {0, 2, AgentOne \div 4, 5033160, 5033162, 5033164, AgentOne \div 2, AgentOne - 2}

\* Agent::new(x, y, rgb) with the two draws vx, vy
AgentNew(x, y, rgb, vx, vy) == [x |-> x, y |-> y, rgb |-> rgb, velocity |-> <<vx, vy>>]

\* the velocity assigned -1.0 instead of multiplied by it
FlipVelocityAssigned(v) == -AgentOne

\* self.velocity.0 = self.velocity.0 * -1.0
FlipVelocity(v) == -v

\* the boundary tests with > and < in place of >= and <=
HitsWallStrict(pos, extent) == pos > extent * AgentOne \/ pos < 0

\* if self.x >= (world_width as f32) || self.x <= 0.0
HitsWall(pos, extent) == pos >= extent * AgentOne \/ pos <= 0

AgentUpdate(a, world_height, world_width) ==
    LET x == F32Round(F32Add(a.x, a.velocity[1]) * AGENT_SPEED)
        y == F32Round(F32Add(a.y, a.velocity[2]) * AGENT_SPEED)
        vx == IF HitsWall(x, world_width) THEN FlipVelocity(a.velocity[1]) ELSE a.velocity[1]
        vy == IF HitsWall(y, world_height) THEN FlipVelocity(a.velocity[2]) ELSE a.velocity[2]
    IN  [a EXCEPT !.x = x, !.y = y, !.velocity = <<vx, vy>>]

\* world_width as f32 - 0.3f32, where 0.3f32 = 10066330 * 2^-25 (for
\* world_width = 3 it is 2.7f32 = 11324621 * 2^-22)
AgentNearRight == F32Round(2 * AgentWorldWidth * AgentOne - 10066330) \div 2

\* width - 0.3, 0.5, and 0.0
AgentStartXs == {0, AgentOne \div 2, AgentNearRight}
AgentStartYs == {AgentOne \div 2, AgentOne + AgentOne \div 4}

InitAgent ==
    /\ \E x \in AgentStartXs, y \in AgentStartYs, vx \in VelocityDraws, vy \in VelocityDraws :
          agent = [a |-> AgentNew(x, y, <<MAX_CHANNEL, 0, 0>>, vx, vy), n |-> 0]
    /\ agent_new = agent
    /\ agent_prev = agent

UpdateAgent ==
    /\ agent.n < MaxAgentSteps
    /\ agent' = [a |-> AgentUpdate(agent.a, AgentWorldHeight, AgentWorldWidth), n |-> agent.n + 1]
    /\ agent_prev' = agent
    /\ UNCHANGED agent_new

---------------------------------------------------------------------------
(* mutate_life_cell as a function of its argument and its draws. *)

MutateOffsets == MUTATE_MIN..MUTATE_MAX
Channels == 0..MAX_CHANNEL
EdgeChannels == {0, 1, 2, 3, MAX_CHANNEL - 2, MAX_CHANNEL - 1, MAX_CHANNEL}

\* every channel value on the diagonal, and every triple of edge values
MutateInputs ==
    { <<c, c, c>> : c \in Channels } \cup (EdgeChannels \X EdgeChannels \X EdgeChannels)

NotCalled == << >>

InitMutate ==
    /\ mut_in \in MutateInputs
    /\ mut_off = NotCalled
    /\ mut_out = NotCalled

Mutate ==
    /\ mut_in # NotCalled
    /\ mut_out = NotCalled
    /\ \E off \in MutateOffsets \X MutateOffsets \X MutateOffsets :
          /\ mut_off' = off
          /\ mut_out' = mutate_life_cell(mut_in, off)
    /\ UNCHANGED mut_in

---------------------------------------------------------------------------
(* Specifications. *)

\* an Agent that is never updated, a mutate_life_cell that is never called
IdleAgent ==
    /\ agent = [a |-> AgentNew(0, 0, <<0, 0, 0>>, 0, 0), n |-> MaxAgentSteps]
    /\ agent_new = agent
    /\ agent_prev = agent
IdleMutate == mut_in = NotCalled /\ mut_off = NotCalled /\ mut_out = NotCalled

Init == InitWorld /\ IdleAgent /\ IdleMutate

\* command k has run fewer than max times, and runs once more
Within(k, max) == used[k] < max /\ used' = [used EXCEPT ![k] = @ + 1]

\* the grid under the rules: reseeding, injection, erosion, Life
Next ==
    \/ Within("seed", MaxSeeds) /\ Left /\ UNCHANGED <<agent_vars, mut_vars>>
    \/ Within("click", MaxClicks) /\ Mouse /\ UNCHANGED <<agent_vars, mut_vars>>
    \/ Within("erode", MaxErosions) /\ Right /\ UNCHANGED <<agent_vars, mut_vars>>
    \/ Within("life", MaxGen) /\ UpdateLife /\ UNCHANGED <<agent_vars, mut_vars>>
    \/ Draw /\ UNCHANGED <<used, agent_vars, mut_vars>>

Spec == Init /\ [][Next]_vars

---------------------------------------------------------------------------
(* The <<row, col>> pairs with which each operation indexes
   self.tiles[row][col] or new_tiles[row][col]. *)

\* self.tiles[(y*self.zoom + j)][(x*self.zoom + i)]
SeedIndices(z) ==
    {<<b[2] * z + j, b[1] * z + i>> : b \in SeedBlocks(z), i \in 0..(z - 1), j \in 0..(z - 1)}

\* self.tiles[y][x] for the cell and, past the bounds test, for its
\* neighbours; new_tiles[y][x] for the cell
PassIndices ==
    {<<c[2], c[1]>> : c \in Cells} \cup
    UNION {{<<NeighborCells(c[1], c[2])[k][2], NeighborCells(c[1], c[2])[k][1]>> :
               k \in 1..Len(NeighborCells(c[1], c[2]))} : c \in Cells}

\* g.game.world.tiles[row][col]
MouseIndices(m) ==
    IF m.some /\ inside_cells(m.x, m.y) THEN {<<MouseRow(m.y), MouseCol(m.x)>>} ELSE {}

\* self.tiles[row][col] for the pixels inside the grid
DrawIndices ==
    {<<MouseRow(p[2]), MouseCol(p[1])>> : p \in {q \in DrawPixels : inside_cells(q[1], q[2])}}

\* the allocated indices of a grid
Allocated(t) == UNION {{<<row, col>> : col \in DOMAIN t[row]} : row \in DOMAIN t}

\* the indices the last operation used
Accessed ==
    IF seed_draws # NoDraws THEN SeedIndices(zoom)
    ELSE IF op \in {"Right", "update_life"} THEN PassIndices
    ELSE IF op = "Mouse" THEN MouseIndices(mouse)
    ELSE IF op = "draw" THEN DrawIndices
    ELSE {}

\* every command of the program
NextAll ==
    \/ Within("cmd", MaxCommands) /\ Left /\ UNCHANGED <<agent_vars, mut_vars>>
    \/ Within("cmd", MaxCommands) /\ Up /\ UNCHANGED <<agent_vars, mut_vars>>
    \/ Within("cmd", MaxCommands) /\ Down /\ UNCHANGED <<agent_vars, mut_vars>>
    \/ Within("cmd", MaxCommands) /\ Z /\ UNCHANGED <<agent_vars, mut_vars>>
    \/ Within("cmd", MaxCommands) /\ X /\ UNCHANGED <<agent_vars, mut_vars>>
    \/ Within("cmd", MaxCommands) /\ Mouse /\ UNCHANGED <<agent_vars, mut_vars>>
    \/ Within("cmd", MaxCommands) /\ Right /\ UNCHANGED <<agent_vars, mut_vars>>
    \/ Within("cmd", MaxCommands) /\ UpdateLife /\ UNCHANGED <<agent_vars, mut_vars>>
    \/ Draw /\ UNCHANGED <<used, agent_vars, mut_vars>>
SpecAll == Init /\ [][NextAll]_vars

\* the zoom commands, with reseeds and one injection, at the density of
\* World::new
NextZoom ==
    \/ Left /\ UNCHANGED <<used, agent_vars, mut_vars>>
    \/ Z /\ UNCHANGED <<used, agent_vars, mut_vars>>
    \/ X /\ UNCHANGED <<used, agent_vars, mut_vars>>
    \/ Within("click", MaxClicks) /\ Mouse /\ UNCHANGED <<agent_vars, mut_vars>>
    \/ Draw /\ UNCHANGED <<used, agent_vars, mut_vars>>
SpecZoom == Init /\ [][NextZoom]_vars

\* Draws for runs of any length: the offsets of mutate_life_cell are 0, so
\* that the colours stay those injected.  A cell's draws are lucky (both
\* succeed), blocked (the survive draw fails, the spawn draw succeeds) or
\* quiet (the spawn draw fails).
LuckyDraw == [survive |-> 0, spawn |-> 0, pick |-> 0, mutate |-> <<0, 0, 0>>]
BlockedDraw == [survive |-> F32One - 32, spawn |-> 0, pick |-> 0, mutate |-> <<0, 0, 0>>]
LongRunDrawVectors ==
    {[c \in Cells |-> LuckyDraw]} \cup
    {[c \in Cells |-> IF c = e THEN d ELSE QuietDraw] : e \in Cells, d \in {LuckyDraw, BlockedDraw}}

\* commands that set the grid up, then update_life frame after frame and
\* no other command; the game loop runs render in every frame
LifePhase == used.life > 0
NextLifeRun ==
    \/ ~LifePhase /\ Within("seed", MaxSeeds) /\ Left /\ UNCHANGED <<agent_vars, mut_vars>>
    \/ ~LifePhase /\ Within("click", MaxClicks) /\ Mouse /\ UNCHANGED <<agent_vars, mut_vars>>
    \/ /\ UpdateLifeWith(LongRunDrawVectors)
       /\ used' = [used EXCEPT !.life = 1]
       /\ UNCHANGED <<agent_vars, mut_vars>>
    \/ Draw /\ UNCHANGED <<used, agent_vars, mut_vars>>
FairLifeRun == WF_vars(Draw /\ UNCHANGED <<used, agent_vars, mut_vars>>)
SpecLifeRun == Init /\ [][NextLifeRun]_vars /\ FairLifeRun

\* Z pressed again and again, through the whole range of zoom
NextZoomIn ==
    \/ ZoomIn(I16_MAX + 1) /\ UNCHANGED <<used, agent_vars, mut_vars>>
    \/ Draw /\ UNCHANGED <<used, agent_vars, mut_vars>>
SpecZoomIn == Init /\ [][NextZoomIn]_vars

\* the density commands, with reseeds and zooming out
NextDensity ==
    \/ Up /\ UNCHANGED <<used, agent_vars, mut_vars>>
    \/ Down /\ UNCHANGED <<used, agent_vars, mut_vars>>
    \/ Left /\ UNCHANGED <<used, agent_vars, mut_vars>>
    \/ Z /\ UNCHANGED <<used, agent_vars, mut_vars>>
    \/ Draw /\ UNCHANGED <<used, agent_vars, mut_vars>>
SpecDensity == Init /\ [][NextDensity]_vars

\* one Agent, constructed and then updated frame after frame
InitOfAgent == InitWorld /\ InitAgent /\ IdleMutate
NextAgent == UpdateAgent /\ UNCHANGED <<world_vars, mut_vars>>
SpecAgent == InitOfAgent /\ [][NextAgent]_vars

\* one call of mutate_life_cell
InitOfMutate == InitWorld /\ IdleAgent /\ InitMutate
NextMutate == Mutate /\ UNCHANGED <<world_vars, agent_vars>>
SpecMutate == InitOfMutate /\ [][NextMutate]_vars

---------------------------------------------------------------------------
(* What the claims speak of, stated on grids without the passes' code. *)

\* the in-bounds positions (x +- 1, y +- 1) around cell c, c itself excluded
Adjacent(c) ==
    {p \in Cells : p # c /\ Abs(p[1] - c[1]) <= 1 /\ Abs(p[2] - c[2]) <= 1}

Val(t, c) == t[c[2]][c[1]]
EmptyAround(t, c) == Cardinality({p \in Adjacent(c) : Val(t, p) = Empty})
LifeAround(t, c) == Cardinality({p \in Adjacent(c) : IsLife(Val(t, p))})
WallCells(t) == {c \in Cells : Val(t, c) = Wall}
LifeCells(t) == {c \in Cells : IsLife(Val(t, c))}
SameShape(t, u) ==
    /\ DOMAIN t = DOMAIN u
    /\ \A row \in DOMAIN t : DOMAIN t[row] = DOMAIN u[row]
Reverse(seq) == [k \in 1..Len(seq) |-> seq[Len(seq) + 1 - k]]
\* colour k is within 2 of colour c in every channel
Near(k, c) == Abs(k.r - c.r) <= 2 /\ Abs(k.g - c.g) <= 2 /\ Abs(k.b - c.b) <= 2

---------------------------------------------------------------------------
(* Claims. *)

\* C1: after an erosion pass, every cell that had exactly 4 Empty cells
\* among its in-bounds 8-neighbours before the pass holds the value it held
\* before the pass, Wall or Empty alike.
C1_TiePreserved ==
    op = "Right" =>
        \A c \in Cells : EmptyAround(old_tiles, c) = 4 => Val(tiles, c) = Val(old_tiles, c)

\* an erosion pass has run on a grid with a Wall cell and an Empty cell
\* that each had exactly 4 Empty neighbours
C1_Witness ==
    /\ op = "Right"
    /\ \E c \in Cells : EmptyAround(old_tiles, c) = 4 /\ Val(old_tiles, c) = Wall
    /\ \E c \in Cells : EmptyAround(old_tiles, c) = 4 /\ Val(old_tiles, c) = Empty

\* C2: after an erosion pass, a cell that had more than 4 Empty cells among
\* its in-bounds 8-neighbours (no wraparound, itself excluded) is Empty and
\* one that had fewer than 4 is Wall, whatever it held before.
C2_Thresholds ==
    op = "Right" =>
        \A c \in Cells :
            /\ EmptyAround(old_tiles, c) > 4 => Val(tiles, c) = Empty
            /\ EmptyAround(old_tiles, c) < 4 => Val(tiles, c) = Wall

\* an erosion pass has turned a Wall cell Empty, an Empty cell Wall and a
\* Life cell into one of the two
C2_Witness ==
    /\ op = "Right"
    /\ \E c \in Cells : EmptyAround(old_tiles, c) > 4 /\ Val(old_tiles, c) = Wall
    /\ \E c \in Cells : EmptyAround(old_tiles, c) < 4 /\ Val(old_tiles, c) = Empty
    /\ \E c \in Cells : EmptyAround(old_tiles, c) # 4 /\ IsLife(Val(old_tiles, c))

\* the last handler called update_seed
Reseeded == seed_draws # NoDraws
\* the z x z block of the partition that holds cell c
BlockOf(c, z) == <<c[1] \div z, c[2] \div z>>

\* C3: after update_seed, for every zoom factor z >= 1 the Z and X commands
\* reach, every cell of the grid holds the Wall or Empty value this reseed
\* drew for its z x z block: no cell keeps what it held before, no Life cell
\* survives, and the cells of one block hold the same value.
C3_WholeGridReseeded ==
    Reseeded =>
        /\ \A c \in Cells :
               /\ BlockOf(c, zoom) \in DOMAIN seed_draws[1]
               /\ Val(tiles, c) = SeedTile(seed_draws[1][BlockOf(c, zoom)], density)
        /\ LifeCells(tiles) = {}
        /\ \A c, d \in Cells : BlockOf(c, zoom) = BlockOf(d, zoom) => Val(tiles, c) = Val(tiles, d)

\* C4: for every outcome of the draws, update_seed with density <= 0 leaves
\* every cell of the grid Empty, and update_seed with density >= 1 leaves
\* every cell of the grid Wall.
C4_DegenerateDensities ==
    Reseeded =>
        /\ density <= 0 => \A c \in Cells : Val(tiles, c) = Empty
        /\ density >= F32One => \A c \in Cells : Val(tiles, c) = Wall

\* C5: update_life and update_map_iteration decide every cell from the grid
\* as it stood before the pass: the grid after the pass is the per-cell rule
\* applied to the pre-pass grid, it is the same whatever order the cells are
\* visited in, and it has the dimensions of the grid before the pass.
C5_DoubleBuffered ==
    /\ op = "Right" =>
        /\ \A c \in Cells : Val(tiles, c) = ErodedTile(old_tiles, c[1], c[2])
        /\ tiles = MapIterationLoop(old_tiles, FreshTiles, Reverse(VisitOrder), 1)
        /\ SameShape(tiles, old_tiles)
    /\ op = "update_life" =>
        /\ \A c \in Cells :
               Val(tiles, c) =
                   Val(LifeStepCell(old_tiles, old_tiles, c[1], c[2], life_draws[c]), c)
        /\ tiles = LifeLoop(old_tiles, old_tiles, Reverse(VisitOrder), 1, life_draws)
        /\ SameShape(tiles, old_tiles)

\* a life pass has changed a cell that is visited before one of its
\* neighbours, and that neighbour had no Life cell around it before the
\* pass and drew a successful spawn: written in place, the neighbour would
\* have spawned from the cell just changed
C5_Witness ==
    /\ op = "update_life"
    /\ \E c \in Cells : \E p \in Adjacent(c) :
          /\ Val(tiles, c) # Val(old_tiles, c)
          /\ c[1] * height + c[2] < p[1] * height + p[2]
          /\ Val(old_tiles, p) = Empty
          /\ LifeAround(old_tiles, p) = 0
          /\ life_draws[p].spawn < SPAWN_RATE
          /\ Val(tiles, p) = Empty

\* C6: no sequence of life passes and mouse injections changes which cells
\* are Wall: the Wall cells are those of the grid the sequence started from,
\* a life pass leaves every Wall cell Wall and makes no new one, and an
\* injection aimed at a Wall cell leaves the whole grid as it was.
C6_WallsStatic ==
    /\ WallCells(tiles) = WallCells(base_tiles)
    /\ op \in {"update_life", "Mouse"} => WallCells(tiles) = WallCells(old_tiles)
    /\ (/\ op = "Mouse"
        /\ mouse.some
        /\ inside_cells(mouse.x, mouse.y)
        /\ old_tiles[MouseRow(mouse.y)][MouseCol(mouse.x)] = Wall) => tiles = old_tiles

\* an injection and two life passes have followed a reseed that left Wall
\* cells, and the second pass spawned a cell next to a Wall cell
C6_Witness ==
    /\ op = "update_life"
    /\ used.click = 1
    /\ used.life = 2
    /\ \E c \in Cells : \E p \in Adjacent(c) :
           Val(tiles, c) # Val(old_tiles, c) /\ Val(base_tiles, p) = Wall

\* C7: a cell that is Life before a life pass is Life after it, whatever
\* its neighbour count and whatever the survive and spawn draws, so over any
\* sequence of life passes and injections the set of Life cells only grows.
C7_NoDeath ==
    /\ op = "update_life" => \A c \in Cells : IsLife(Val(old_tiles, c)) => IsLife(Val(tiles, c))
    /\ op \in {"update_life", "Mouse"} => LifeCells(old_tiles) \subseteq LifeCells(tiles)
    /\ LifeCells(base_tiles) \subseteq LifeCells(tiles)

\* a life pass has run over a Life cell with fewer than 3 Life neighbours
\* and over one with more than 5, both with a failed survive draw
C7_Witness ==
    /\ op = "update_life"
    /\ \E c \in Cells :
          /\ IsLife(Val(old_tiles, c))
          /\ LifeAround(old_tiles, c) < 3
          /\ life_draws[c].survive >= SURVIVAL_RATE
    /\ \E c \in Cells :
          /\ IsLife(Val(old_tiles, c))
          /\ LifeAround(old_tiles, c) > 5
          /\ life_draws[c].survive >= SURVIVAL_RATE

\* C8: a cell that a life pass changes is Life afterwards, and its colour is
\* within 2 in every channel of the colour of some cell that was Life before
\* the pass and is one of its in-bounds 8-neighbours.
C8_SpawnFromNeighbour ==
    op = "update_life" =>
        \A c \in Cells :
            Val(tiles, c) # Val(old_tiles, c) =>
                /\ IsLife(Val(tiles, c))
                /\ \E p \in Adjacent(c) :
                       IsLife(Val(old_tiles, p)) /\ Near(Val(tiles, c), Val(old_tiles, p))

\* a life pass has spawned a cell with a colour that differs from every
\* Life neighbour's, next to Life cells of two colours
C8_Witness ==
    /\ op = "update_life"
    /\ \E c \in Cells :
          /\ Val(tiles, c) # Val(old_tiles, c)
          /\ \A p \in Adjacent(c) : Val(tiles, c) # Val(old_tiles, p)
          /\ \E p, q \in Adjacent(c) :
                 /\ IsLife(Val(old_tiles, p))
                 /\ IsLife(Val(old_tiles, q))
                 /\ Val(old_tiles, p) # Val(old_tiles, q)

\* C9 as stated: for every input triple with channels in 0..=255 and every
\* offset in [-2,2] per channel, every channel mutate_life_cell returns is
\* greater than 0, at most 255, and within 2 of the input channel.
C9_AsStated ==
    mut_out # NotCalled =>
        \A k \in 1..3 :
            /\ mut_out[k] > 0
            /\ mut_out[k] <= MAX_CHANNEL
            /\ Abs(mut_out[k] - mut_in[k]) <= 2

\* C9, amended: for every input triple with channels in 0..=255 and every
\* offset in [-2,2] per channel, every channel mutate_life_cell returns lies
\* in [0,255], is greater than 0 whenever the input channel is greater than
\* 0, and is within 2 of the input channel.
C9_Range ==
    mut_out # NotCalled =>
        \A k \in 1..3 :
            /\ mut_out[k] >= 0
            /\ mut_out[k] <= MAX_CHANNEL
            /\ mut_in[k] > 0 => mut_out[k] > 0
            /\ Abs(mut_out[k] - mut_in[k]) <= 2

\* mutate_life_cell has returned a triple whose first channel it kept at 1
\* because the offset led to 0, whose second it kept at 255 because the
\* offset led past it, and whose third it moved by 2
C9_Witness ==
    /\ mut_out # NotCalled
    /\ mut_in[1] = 1 /\ mut_off[1] = -1 /\ mut_out[1] = 1
    /\ mut_in[2] = MAX_CHANNEL /\ mut_off[2] = 1 /\ mut_out[2] = MAX_CHANNEL
    /\ mut_in[3] = 3 /\ mut_off[3] = -2 /\ mut_out[3] = 1

\* C10: over any sequence of Agent::update calls the absolute value of each
\* velocity component is the one Agent::new assigned; an update changes a
\* component only by negating it, and only when the coordinate it leaves is
\* <= 0 or >= the extent of the grid on that axis.
C10_VelocityUpToSign ==
    LET v == agent.a.velocity
        pv == agent_prev.a.velocity
        v0 == agent_new.a.velocity
    IN  /\ Abs(v[1]) = Abs(v0[1])
        /\ Abs(v[2]) = Abs(v0[2])
        /\ v[1] # pv[1] =>
              /\ v[1] = -pv[1]
              /\ agent.a.x <= 0 \/ agent.a.x >= AgentWorldWidth * AgentOne
        /\ v[2] # pv[2] =>
              /\ v[2] = -pv[2]
              /\ agent.a.y <= 0 \/ agent.a.y >= AgentWorldHeight * AgentOne

\* an update has just negated both velocity components, the x component at
\* the right edge, which the agent reached from a start left of 1.0
C10_Witness ==
    /\ agent.n > 2
    /\ agent.a.velocity[1] = -agent_prev.a.velocity[1]
    /\ agent.a.velocity[1] < 0
    /\ agent.a.x >= AgentWorldWidth * AgentOne
    /\ agent_new.a.x < AgentOne
    /\ agent.a.velocity[2] # agent_prev.a.velocity[2]

\* C11 as stated: an agent at x = width - 0.3 with a positive x velocity,
\* whatever value Agent::new drew, has a negative x velocity after one
\* Agent::update, and after the following update its x is below width and
\* its x velocity has not been negated again.
C11_AsStated ==
    (agent_new.a.x = AgentNearRight /\ agent_new.a.velocity[1] > 0) =>
        /\ agent.n = 1 => agent.a.velocity[1] < 0
        /\ agent.n = 2 =>
              /\ agent.a.x < AgentWorldWidth * AgentOne
              /\ agent.a.velocity[1] = agent_prev.a.velocity[1]

\* C11, amended: an agent at x = width - 0.3 with a positive x velocity has
\* a negative x velocity after one Agent::update exactly when that update
\* leaves its x at or beyond width (a velocity of about 0.3 or more);
\* after the following update its x is then below width and its x velocity
\* has not been negated again.
C11_Reflection ==
    (agent_new.a.x = AgentNearRight /\ agent_new.a.velocity[1] > 0) =>
        /\ agent.n = 1 =>
              (agent.a.velocity[1] < 0 <=> agent.a.x >= AgentWorldWidth * AgentOne)
        /\ (agent.n = 2 /\ agent_prev.a.x >= AgentWorldWidth * AgentOne) =>
              /\ agent_prev.a.velocity[1] < 0
              /\ agent.a.x < AgentWorldWidth * AgentOne
              /\ agent.a.velocity[1] = agent_prev.a.velocity[1]

\* an agent that started at width - 0.3 landed exactly on width in its
\* first update, and its second update has brought it back below width
C11_Witness ==
    /\ agent.n = 2
    /\ agent_new.a.x = AgentNearRight
    /\ agent_new.a.velocity[1] > 0
    /\ agent_prev.a.x = AgentWorldWidth * AgentOne
    /\ agent.a.x < AgentWorldWidth * AgentOne
    /\ agent.a.velocity[1] < 0

\* C12: in every state reached by any sequence of life passes, erosion
\* passes, reseeds at any reachable zoom and density, zoom and density
\* commands and injections, every index the last operation read or wrote
\* the grid with lies inside the grid's allocated dimensions.
C12_InBounds == Accessed \subseteq Allocated(tiles)

\* a reseed at a zoom that does not divide the grid has written the last
\* block that fits, next to the cells no block covers
C12_Witness ==
    /\ Reseeded
    /\ width % zoom # 0
    /\ <<(width \div zoom) * zoom - 1, (width \div zoom) * zoom - 1>> \in Accessed
    /\ Accessed # Allocated(tiles)

\* C13: World::draw leaves tiles, density and zoom as they were (width,
\* height and scale are never assigned by any operation), so the grid the
\* next step reads is the grid the last step wrote.
C13_DrawReadOnly ==
    [][op' = "draw" => (tiles' = tiles /\ density' = density /\ zoom' = zoom)]_vars

\* a frame has been drawn over a grid that holds Wall, Empty and Life cells
C13_Witness ==
    /\ op = "draw"
    /\ WallCells(tiles) # {}
    /\ LifeCells(tiles) # {}
    /\ \E c \in Cells : Val(tiles, c) = Empty
    /\ \E p \in DrawPixels :
          Frame([tiles |-> tiles, density |-> density, zoom |-> zoom])[p] \notin
              {<<255, 255, 255, 255>>, <<0, 0, 0, 255>>}

\* C14: in a life pass, a cell that is not Wall, has more than 5 or fewer
\* than 3 Life cells among its neighbours and draws a failed survive
\* (draw >= SURVIVAL_RATE) holds after the pass the value it held before,
\* even when its spawn draw succeeds and it has Life neighbours.
C14_DeathBeforeSpawn ==
    op = "update_life" =>
        \A c \in Cells :
            (/\ Val(old_tiles, c) # Wall
             /\ LifeAround(old_tiles, c) > 5 \/ LifeAround(old_tiles, c) < 3
             /\ life_draws[c].survive >= SURVIVAL_RATE) =>
                Val(tiles, c) = Val(old_tiles, c)

\* a life pass has left an Empty cell with 1 or 2 Life neighbours Empty,
\* with a failed survive draw and a successful spawn draw
C14_Witness ==
    /\ op = "update_life"
    /\ \E c \in Cells :
          /\ Val(old_tiles, c) = Empty
          /\ LifeAround(old_tiles, c) \in {1, 2}
          /\ life_draws[c].survive >= SURVIVAL_RATE
          /\ life_draws[c].spawn < SPAWN_RATE
          /\ Val(tiles, c) = Empty

\* C15: in a life pass a cell with no Life cell among its in-bounds
\* 8-neighbours before the pass keeps its value whatever the draws; a grid
\* without a Life cell is left as it is; and a cell that is Life after the
\* pass was Life before it or had a Life neighbour before it.
C15_NoSpontaneousLife ==
    op = "update_life" =>
        /\ \A c \in Cells : LifeAround(old_tiles, c) = 0 => Val(tiles, c) = Val(old_tiles, c)
        /\ LifeCells(old_tiles) = {} => tiles = old_tiles
        /\ \A c \in Cells :
               IsLife(Val(tiles, c)) => IsLife(Val(old_tiles, c)) \/ LifeAround(old_tiles, c) > 0

\* a life pass has run over a grid with a Life cell that has no Life
\* neighbour and an Empty cell that has none, both with successful survive
\* and spawn draws
C15_Witness ==
    /\ op = "update_life"
    /\ \E c, e \in Cells :
          /\ IsLife(Val(old_tiles, c))
          /\ Val(old_tiles, e) = Empty
          /\ LifeAround(old_tiles, c) = 0
          /\ LifeAround(old_tiles, e) = 0
          /\ life_draws[c].survive < SURVIVAL_RATE
          /\ life_draws[c].spawn < SPAWN_RATE
          /\ life_draws[e].survive < SURVIVAL_RATE
          /\ life_draws[e].spawn < SPAWN_RATE

\* C16: in every state reached by injections, life passes, erosion passes
\* and reseeds, every Life cell has its three channels in 0..=255, so every
\* component of every pixel World::draw computes fits 8 bits.
C16_ChannelsRenderable ==
    /\ \A c \in LifeCells(tiles) :
           /\ Val(tiles, c).r \in 0..MAX_CHANNEL
           /\ Val(tiles, c).g \in 0..MAX_CHANNEL
           /\ Val(tiles, c).b \in 0..MAX_CHANNEL
    /\ LET frame == Frame([tiles |-> tiles, density |-> density, zoom |-> zoom])
       IN  \A p \in DrawPixels : \A k \in 1..4 : frame[p][k] \in 0..MAX_CHANNEL

\* a life pass has spawned a cell from a neighbour with a channel at 0 and
\* a channel at 255, with offsets that lead below 0 and above 255
C16_Witness ==
    /\ op = "update_life"
    /\ \E c \in Cells :
          /\ Val(tiles, c) # Val(old_tiles, c)
          /\ life_draws[c].mutate[1] < 0
          /\ Val(tiles, c).r = 0
          /\ life_draws[c].mutate[3] > 0
          /\ Val(tiles, c).b = MAX_CHANNEL

\* C17: from zoom = 1, after any sequence of Z and X commands the zoom is
\* at least 1 (update_seed divides by it), and an X command at zoom = 1
\* changes neither the zoom nor the grid and calls no update_seed.  (The
\* second half holds wherever X runs; the first fails when zoom += 1 wraps
\* around at I16_MAX.)
C17_ZoomPositive ==
    /\ [](zoom >= 1)
    /\ [][(op' = "X" /\ zoom = 1) =>
             (zoom' = 1 /\ tiles' = tiles /\ seed_draws' = NoDraws)]_vars

\* the four corner cells of the grid
Corners == {c \in Cells : c[1] \in {0, width - 1} /\ c[2] \in {0, height - 1}}

\* C18: after any erosion pass on a grid at least 2 cells wide and high,
\* every corner cell is Wall, whatever the grid held before the pass; an
\* all-Empty grid is therefore changed by the pass.
C18_CornersWall ==
    (op = "Right" /\ width >= 2 /\ height >= 2) =>
        /\ \A c \in Corners : Val(tiles, c) = Wall
        /\ (\A c \in Cells : Val(old_tiles, c) = Empty) => tiles # old_tiles

\* an erosion pass has turned into Wall a corner that held Life and had all
\* its in-bounds neighbours Empty
C18_Witness ==
    /\ op = "Right"
    /\ \E c \in Corners :
          /\ IsLife(Val(old_tiles, c))
          /\ EmptyAround(old_tiles, c) = Cardinality(Adjacent(c))
          /\ Val(tiles, c) = Wall

\* the cells of S and the non-Wall cells next to one of them
Grow(t, S) == S \cup {c \in Cells : Val(t, c) # Wall /\ \E p \in Adjacent(c) : p \in S}
RECURSIVE Closure(_, _)
Closure(t, S) == IF Grow(t, S) = S THEN S ELSE Closure(t, Grow(t, S))
\* the non-Wall cells a chain of 8-adjacent non-Wall cells links to a Life
\* cell of t
Region(t) == Closure(t, LifeCells(t))

\* a life pass in which the survive draw and the spawn draw of cell c both
\* succeed
LuckyPass(c) ==
    /\ op' = "update_life"
    /\ life_draws'[c].survive < SURVIVAL_RATE
    /\ life_draws'[c].spawn < SPAWN_RATE

\* fairness of the draws: every cell has a lucky pass again and again
DrawsFair == \A c \in Cells : []<><<LuckyPass(c)>>_vars

\* a life pass takes no cell out of the region
RegionKept == op = "update_life" => Region(old_tiles) \subseteq Region(tiles)

\* every cell of the region is Life
RegionFilled == Region(tiles) \subseteq LifeCells(tiles)

\* C19: in a run of life passes and no other command in which every cell
\* again and again has a pass where its survive and spawn draws both
\* succeed, every non-Wall cell that a chain of 8-adjacent non-Wall cells
\* links to a Life cell is eventually Life and stays Life from then on: a
\* cell of the region stays in it, and from some pass on every cell of the
\* region is Life for ever.
C19_LifeFills ==
    DrawsFair => ([]RegionKept /\ <>[](LifePhase /\ RegionFilled))

\* a run of life passes has filled with Life every cell around a Wall cell,
\* starting from a single Life cell
C19_Witness ==
    /\ LifePhase
    /\ op = "update_life"
    /\ used.click = 1
    /\ Cardinality(WallCells(tiles)) = 1
    /\ LifeCells(tiles) = Cells \ WallCells(tiles)
    /\ LifeCells(tiles) = Region(tiles)

=============================================================================
